---- MODULE Spec2Model ----
(***************************************************************************)
(* Quoting core of the DLMM commons crate: quote.rs (quote_exact_in,       *)
(* quote_exact_out, get_bin_array_pubkeys_for_swap), extensions/lb_pair.rs *)
(* (fees, volatility tracker, bitmap navigator) and extensions/bin.rs      *)
(* (per-bin swap math).                                                    *)
(*                                                                         *)
(* TLC evaluates on 32-bit integers, so the machine widths and the         *)
(* fixed-point precisions are scaled down: U64_MAX, U32_MAX, I64_MAX and   *)
(* USIZE_MAX stand for the largest u64, u32, i64 and usize, SCALE_OFFSET   *)
(* for the 64 fractional bits of a price, FEE_PRECISION, MAX_FEE_RATE,     *)
(* BASIS_POINT_MAX and VARIABLE_FEE_PRECISION for the fee denominators.    *)
(* Every checked operation of the source keeps its check against the       *)
(* scaled width.  The 1024-bit bitmap keeps its real size: it is the set   *)
(* of its set bit positions.                                               *)
(***************************************************************************)
EXTENDS Integers, Naturals, Sequences, FiniteSets, TLC

\* ------------------------------------------------------------ widths
U64_MAX == 20
U32_MAX == 40
USIZE_MAX == 4095
\* i64 is the signed reading of the u64 values.
I64_MAX == U64_MAX \div 2
I64_MIN == I64_MAX - U64_MAX

\* --------------------------------------------------- program constants
SCALE_OFFSET == 3
BASIS_POINT_MAX == 10
FEE_PRECISION == 100
MAX_FEE_RATE == 30
VARIABLE_FEE_PRECISION == 20
BIN_ARRAY_BITMAP_SIZE == 512
BINS_PER_ARRAY == 2
MAX_BIN_ID == 1023
MIN_BIN_ID == 0 - MAX_BIN_ID

\* ----------------------------------------------------------- results
\* Result<T>: Ok(v) or an error kind.
Ok(v) == [ok |-> TRUE, val |-> v, err |-> "None"]
Err(e) == [ok |-> FALSE, err |-> e]

\* The element of a singleton.  Only({F(x) : x \in {e}}) is F(e) with e
\* evaluated once.
Only(S) == CHOOSE x \in S : TRUE

Min(a, b) == IF a <= b THEN a ELSE b
Abs(a) == IF a < 0 THEN 0 - a ELSE a
Pow2(n) == 2 ^ n
SetMax(S) == CHOOSE x \in S : \A y \in S : y <= x
SetMin(S) == CHOOSE x \in S : \A y \in S : x <= y

\* `x as usize` / `x as u64` of a signed value: two's complement wrap.
as_usize(x) == IF x < 0 THEN USIZE_MAX + 1 + x ELSE x
as_u64(x) == IF x < 0 THEN U64_MAX + 1 + x ELSE x
as_i64(x) == IF x > I64_MAX THEN x - (U64_MAX + 1) ELSE x

\* u64::try_from / checked u64 arithmetic: the value or Overflow.
try_into_u64(x) == IF x >= 0 /\ x <= U64_MAX THEN Ok(x) ELSE Err("Overflow")
try_into_u32(x) == IF x >= 0 /\ x <= U32_MAX THEN Ok(x) ELSE Err("Overflow")

\* ------------------------------------------------- fixed-point math
\* (a * b) >> shift, rounded up when a discarded bit is set, narrowed to u64.
safe_mul_shr_cast(a, b, shift, rounding) ==
    LET prod == a * b
        down == prod \div Pow2(shift)
        r == IF rounding = "Up" /\ prod % Pow2(shift) # 0 THEN down + 1 ELSE down
    IN  try_into_u64(r)

\* (a << shift) / b, rounded up when the remainder is not zero, narrowed to u64.
safe_shl_div_cast(a, b, shift, rounding) ==
    IF b = 0 THEN Err("MathDomain")
    ELSE LET num == a * Pow2(shift)
             down == num \div b
             r == IF rounding = "Up" /\ num % b # 0 THEN down + 1 ELSE down
         IN  try_into_u64(r)

\* ------------------------------------------------------- price model
\* (1 + bin_step / BASIS_POINT_MAX)^id in fixed point, by repeated
\* multiplication (negative ids: the reciprocal).
RECURSIVE pow_q(_, _)
pow_q(base, n) ==
    IF n = 0 THEN Pow2(SCALE_OFFSET)
    ELSE (pow_q(base, n - 1) * base) \div Pow2(SCALE_OFFSET)

get_price_from_id(id, bin_step) ==
    LET one == Pow2(SCALE_OFFSET)
        base == one + (bin_step * one) \div BASIS_POINT_MAX
        p == pow_q(base, Abs(id))
    IN  IF id >= 0 THEN p ELSE (one * one) \div p

\* ------------------------------------------------ LbPair extension
\* update_references(&mut self, current_timestamp): `self` after the call
\* and whether it returned Ok.  index_reference is stored before the decay
\* product is checked, so an Overflow leaves it stored.
\* Variant of decayed_volatility_reference that decays the stored reference
\* again instead of the accumulator.
decayed_from_reference(v, s) ==
    LET prod == v.volatility_reference * s.reduction_factor
    IN  IF prod > U32_MAX THEN Err("Overflow") ELSE Ok(prod \div BASIS_POINT_MAX)

\* volatility_accumulator.checked_mul(reduction_factor)?.checked_div(BASIS_POINT_MAX)?
decayed_volatility_reference(v, s) ==
    LET prod == v.volatility_accumulator * s.reduction_factor
    IN  IF prod > U32_MAX THEN Err("Overflow") ELSE Ok(prod \div BASIS_POINT_MAX)

\* Variant of update_references that keeps the stored volatility_reference
\* once the decay period has passed.
update_references_without_reset(lb, current_timestamp) ==
    LET v == lb.v_parameters
        s == lb.parameters
        elapsed == current_timestamp - v.last_update_timestamp
    IN  IF elapsed > I64_MAX \/ elapsed < I64_MIN
        THEN [ok |-> FALSE, err |-> "Overflow", self |-> lb]
        ELSE IF elapsed >= s.filter_period /\ elapsed < s.decay_period
        THEN LET volatility_reference == decayed_volatility_reference(v, s)
                 lb1 == [lb EXCEPT !.v_parameters.index_reference = lb.active_id]
             IN  IF ~volatility_reference.ok
                 THEN [ok |-> FALSE, err |-> "Overflow", self |-> lb1]
                 ELSE [ok |-> TRUE, err |-> "None",
                       self |-> [lb1 EXCEPT !.v_parameters.volatility_reference =
                                               volatility_reference.val]]
        ELSE IF elapsed >= s.filter_period
        THEN [ok |-> TRUE, err |-> "None",
              self |-> [lb EXCEPT !.v_parameters.index_reference = lb.active_id]]
        ELSE [ok |-> TRUE, err |-> "None", self |-> lb]

update_references(lb, current_timestamp) ==
    LET v == lb.v_parameters
        s == lb.parameters
        elapsed == current_timestamp - v.last_update_timestamp
    IN  IF elapsed > I64_MAX \/ elapsed < I64_MIN
        THEN [ok |-> FALSE, err |-> "Overflow", self |-> lb]
        ELSE IF elapsed >= s.filter_period
        THEN LET lb1 == [lb EXCEPT !.v_parameters.index_reference = lb.active_id]
             IN  IF elapsed < s.decay_period
                 THEN LET volatility_reference == decayed_volatility_reference(v, s)
                      IN  IF ~volatility_reference.ok
                          THEN [ok |-> FALSE, err |-> "Overflow", self |-> lb1]
                          ELSE [ok |-> TRUE, err |-> "None",
                                self |-> [lb1 EXCEPT !.v_parameters.volatility_reference =
                                                        volatility_reference.val]]
                 ELSE [ok |-> TRUE, err |-> "None",
                       self |-> [lb1 EXCEPT !.v_parameters.volatility_reference = 0]]
        ELSE [ok |-> TRUE, err |-> "None", self |-> lb]

\* Variant of update_volatility_accumulator that leaves the accumulator as
\* it is stored.
update_volatility_accumulator_stale(lb) == [ok |-> TRUE, err |-> "None", self |-> lb]

\* update_volatility_accumulator(&mut self).  delta_id is the distance of two
\* i32 values, BASIS_POINT_MAX is 10^4, volatility_reference and
\* max_volatility_accumulator are u32: the u64 sum and the u32 narrowing of
\* the capped value cannot fail at the widths of the source, so the call
\* always returns Ok.
update_volatility_accumulator(lb) ==
    LET v == lb.v_parameters
        delta_id == Abs(v.index_reference - lb.active_id)
        volatility_accumulator == v.volatility_reference + delta_id * BASIS_POINT_MAX
    IN  [ok |-> TRUE, err |-> "None",
         self |-> [lb EXCEPT !.v_parameters.volatility_accumulator =
                                Min(volatility_accumulator,
                                    lb.parameters.max_volatility_accumulator)]]

\* The fee rates are u128 values far below the u128 limit at every width
\* of the inputs (u16, u8, u32), so their checked operations never fail.
get_base_fee(lb) ==
    lb.parameters.base_factor * lb.bin_step * 10 * (10 ^ lb.parameters.base_fee_power_factor)

compute_variable_fee(lb, volatility_accumulator) ==
    IF lb.parameters.variable_fee_control > 0
    THEN LET square_vfa_bin == (volatility_accumulator * lb.bin_step) ^ 2
             v_fee == lb.parameters.variable_fee_control * square_vfa_bin
         IN  (v_fee + (VARIABLE_FEE_PRECISION - 1)) \div VARIABLE_FEE_PRECISION
    ELSE 0

get_variable_fee(lb) == compute_variable_fee(lb, lb.v_parameters.volatility_accumulator)

get_total_fee(lb) == Min(get_base_fee(lb) + get_variable_fee(lb), MAX_FEE_RATE)

\* Variant of compute_fee that divides by FEE_PRECISION, as the fee inside a
\* gross amount is computed.
compute_fee_on_gross(lb, amount) ==
    try_into_u64((amount * get_total_fee(lb) + FEE_PRECISION - 1) \div FEE_PRECISION)

\* compute_fee(amount): the fee on top of a pre-fee amount, rounded up.
compute_fee(lb, amount) ==
    LET total_fee_rate == get_total_fee(lb)
        denominator == FEE_PRECISION - total_fee_rate
    IN  IF denominator < 0 THEN Err("Overflow")
        ELSE IF denominator = 0 THEN Err("Overflow")
        ELSE try_into_u64((amount * total_fee_rate + denominator - 1) \div denominator)

\* Variant of compute_fee_from_amount that rounds the fee down.
compute_fee_from_amount_floor(lb, amount_with_fees) ==
    try_into_u64((amount_with_fees * get_total_fee(lb)) \div FEE_PRECISION)

\* compute_fee_from_amount(amount_with_fees): the fee inside a gross amount.
compute_fee_from_amount(lb, amount_with_fees) ==
    try_into_u64((amount_with_fees * get_total_fee(lb) + (FEE_PRECISION - 1))
                 \div FEE_PRECISION)

compute_protocol_fee(lb, fee_amount) ==
    try_into_u64((fee_amount * lb.parameters.protocol_share) \div BASIS_POINT_MAX)

\* Variant of advance_active_bin that accepts one id beyond the last bin id.
advance_active_bin_beyond(lb, swap_for_y) ==
    LET next_active_bin_id == IF swap_for_y THEN lb.active_id - 1 ELSE lb.active_id + 1
    IN  IF next_active_bin_id >= MIN_BIN_ID - 1 /\ next_active_bin_id <= MAX_BIN_ID + 1
        THEN [ok |-> TRUE, err |-> "None", self |-> [lb EXCEPT !.active_id = next_active_bin_id]]
        ELSE [ok |-> FALSE, err |-> "InsufficientLiquidity", self |-> lb]

\* advance_active_bin(&mut self, swap_for_y).
advance_active_bin(lb, swap_for_y) ==
    LET next_active_bin_id == IF swap_for_y THEN lb.active_id - 1 ELSE lb.active_id + 1
    IN  IF next_active_bin_id >= MIN_BIN_ID /\ next_active_bin_id <= MAX_BIN_ID
        THEN [ok |-> TRUE, err |-> "None", self |-> [lb EXCEPT !.active_id = next_active_bin_id]]
        ELSE [ok |-> FALSE, err |-> "InsufficientLiquidity", self |-> lb]

bitmap_range == <<0 - BIN_ARRAY_BITMAP_SIZE, BIN_ARRAY_BITMAP_SIZE - 1>>

\* Variant of is_overflow_default_bin_array_bitmap that takes the last index
\* of the range for one outside it.
is_overflow_default_bin_array_bitmap_inclusive(bin_array_index) ==
    bin_array_index >= bitmap_range[2] \/ bin_array_index < bitmap_range[1]

\* Variant of is_overflow_default_bin_array_bitmap that tests the upper end of
\* the range alone.
is_overflow_default_bin_array_bitmap_upper(bin_array_index) ==
    bin_array_index > bitmap_range[2]

is_overflow_default_bin_array_bitmap(bin_array_index) ==
    bin_array_index > bitmap_range[2] \/ bin_array_index < bitmap_range[1]

\* Variant of get_bin_array_offset with the offset one bit low.
get_bin_array_offset_low(bin_array_index) ==
    as_usize(bin_array_index + BIN_ARRAY_BITMAP_SIZE - 1)

get_bin_array_offset(bin_array_index) == as_usize(bin_array_index + BIN_ARRAY_BITMAP_SIZE)

\* U1024 as the set of its set bit positions, 0 the least significant.
U1024_BITS == 2 * BIN_ARRAY_BITMAP_SIZE
shl(bits, n) == {k + n : k \in {j \in bits : j + n < U1024_BITS}}
shr(bits, n) == {k - n : k \in {j \in bits : j - n >= 0}}
leading_zeros(bits) == (U1024_BITS - 1) - SetMax(bits)
trailing_zeros(bits) == SetMin(bits)

\* next_bin_array_index_with_liquidity_internal(&self, swap_for_y, start).
next_bin_array_index_with_liquidity_internal(lb, swap_for_y, start_array_index) ==
    LET array_offset == get_bin_array_offset(start_array_index)
        min_bitmap_id == bitmap_range[1]
        max_bitmap_id == bitmap_range[2]
    IN  IF swap_for_y
        THEN LET range == max_bitmap_id - min_bitmap_id
             IN  IF range - array_offset < 0 THEN Err("Overflow")
                 ELSE LET offset_bit_map == shl(lb.bin_array_bitmap, range - array_offset)
                      IN  IF offset_bit_map = {}
                          THEN Ok(<<min_bitmap_id - 1, FALSE>>)
                          ELSE Ok(<<start_array_index - leading_zeros(offset_bit_map), TRUE>>)
        ELSE LET offset_bit_map == shr(lb.bin_array_bitmap, array_offset)
             IN  IF offset_bit_map = {}
                 THEN Ok(<<max_bitmap_id + 1, FALSE>>)
                 ELSE Ok(<<start_array_index + trailing_zeros(offset_bit_map), TRUE>>)

\* --------------------------------------------------- Bin extension
\* A bin is [amount_x, amount_y, price]; price 0 means not yet computed.
get_or_store_bin_price(bin, id, bin_step) ==
    IF bin.price = 0
    THEN [self |-> [bin EXCEPT !.price = get_price_from_id(id, bin_step)],
          val |-> get_price_from_id(id, bin_step)]
    ELSE [self |-> bin, val |-> bin.price]

is_empty(bin, is_x) == IF is_x THEN bin.amount_x = 0 ELSE bin.amount_y = 0

\* Variant of get_max_amount_out that reads the pay-side reserve.
get_max_amount_out_pay_side(bin, swap_for_y) ==
    IF swap_for_y THEN bin.amount_x ELSE bin.amount_y

get_max_amount_out(bin, swap_for_y) ==
    IF swap_for_y THEN bin.amount_y ELSE bin.amount_x

get_max_amount_in(bin, price, swap_for_y) ==
    IF swap_for_y
    THEN safe_shl_div_cast(bin.amount_y, price, SCALE_OFFSET, "Up")
    ELSE safe_mul_shr_cast(bin.amount_x, price, SCALE_OFFSET, "Up")

\* Variant of get_amount_in that rounds down and adds one unit.
get_amount_in_next_unit(amount_out, price, swap_for_y) ==
    LET down == IF swap_for_y
                THEN safe_shl_div_cast(amount_out, price, SCALE_OFFSET, "Down")
                ELSE safe_mul_shr_cast(amount_out, price, SCALE_OFFSET, "Down")
    IN  IF down.ok THEN try_into_u64(down.val + 1) ELSE down

get_amount_in(amount_out, price, swap_for_y) ==
    IF swap_for_y
    THEN safe_shl_div_cast(amount_out, price, SCALE_OFFSET, "Up")
    ELSE safe_mul_shr_cast(amount_out, price, SCALE_OFFSET, "Up")

get_amount_out(amount_in, price, swap_for_y) ==
    IF swap_for_y
    THEN safe_mul_shr_cast(price, amount_in, SCALE_OFFSET, "Down")
    ELSE safe_shl_div_cast(amount_in, price, SCALE_OFFSET, "Down")

checked_add(a, b) == try_into_u64(a + b)
checked_sub(a, b) == try_into_u64(a - b)

\* Variant of amount_into_bin that moves the fee into the bin as well.
amount_into_bin_with_fee(amount_in_with_fees, fee) == Ok(amount_in_with_fees)

\* let amount_into_bin = amount_in_with_fees.checked_sub(fee)
amount_into_bin(amount_in_with_fees, fee) == checked_sub(amount_in_with_fees, fee)

\* The (amount_in_with_fees, amount_out, fee, protocol_fee) tuple of swap.
swap_charge(bin, amount_in, price, swap_for_y, lb) ==
    LET max_amount_out == get_max_amount_out(bin, swap_for_y)
        gross == get_max_amount_in(bin, price, swap_for_y)
        max_fee == IF gross.ok THEN compute_fee(lb, gross.val) ELSE gross
        max_amount_in == IF max_fee.ok THEN checked_add(gross.val, max_fee.val) ELSE max_fee
    IN  IF ~max_amount_in.ok THEN max_amount_in
        ELSE IF amount_in > max_amount_in.val
        THEN LET protocol_fee == compute_protocol_fee(lb, max_fee.val)
             IN  IF ~protocol_fee.ok THEN protocol_fee
                 ELSE Ok([amount_in_with_fees |-> max_amount_in.val,
                          amount_out |-> max_amount_out,
                          fee |-> max_fee.val,
                          protocol_fee |-> protocol_fee.val])
        ELSE LET fee == compute_fee_from_amount(lb, amount_in)
                 amount_in_after_fee == IF fee.ok THEN checked_sub(amount_in, fee.val) ELSE fee
                 amount_out == IF amount_in_after_fee.ok
                               THEN get_amount_out(amount_in_after_fee.val, price, swap_for_y)
                               ELSE amount_in_after_fee
                 protocol_fee == IF amount_out.ok THEN compute_protocol_fee(lb, fee.val)
                                 ELSE amount_out
             IN  IF ~protocol_fee.ok THEN protocol_fee
                 ELSE Ok([amount_in_with_fees |-> amount_in,
                          amount_out |-> Min(amount_out.val, max_amount_out),
                          fee |-> fee.val,
                          protocol_fee |-> protocol_fee.val])

\* bin.rs 137-171: the fee split and the move of the reserves, given the
\* charge c of swap_charge.
swap_settle(bin, swap_for_y, host_fee_bps, c) ==
    LET host_mul == IF host_fee_bps < 0 THEN Ok(0)
                    ELSE try_into_u64(c.val.protocol_fee * host_fee_bps)
        host_fee == IF host_mul.ok THEN Ok(host_mul.val \div BASIS_POINT_MAX) ELSE host_mul
        protocol_fee_after_host_fee ==
            IF host_fee.ok THEN checked_sub(c.val.protocol_fee, host_fee.val) ELSE host_fee
        into_bin == IF protocol_fee_after_host_fee.ok
                    THEN amount_into_bin(c.val.amount_in_with_fees, c.val.fee)
                    ELSE protocol_fee_after_host_fee
        pay == IF swap_for_y THEN bin.amount_x ELSE bin.amount_y
        recv == IF swap_for_y THEN bin.amount_y ELSE bin.amount_x
        pay2 == IF into_bin.ok THEN checked_add(pay, into_bin.val) ELSE into_bin
        recv2 == IF pay2.ok THEN checked_sub(recv, c.val.amount_out) ELSE pay2
        paid == IF swap_for_y THEN [bin EXCEPT !.amount_x = pay2.val]
                ELSE [bin EXCEPT !.amount_y = pay2.val]
    IN  IF ~c.ok THEN [ok |-> FALSE, err |-> c.err, self |-> bin]
        ELSE IF ~pay2.ok THEN [ok |-> FALSE, err |-> pay2.err, self |-> bin]
        ELSE IF ~recv2.ok THEN [ok |-> FALSE, err |-> recv2.err, self |-> paid]
        ELSE [ok |-> TRUE, err |-> "None",
              self |-> IF swap_for_y THEN [paid EXCEPT !.amount_y = recv2.val]
                       ELSE [paid EXCEPT !.amount_x = recv2.val],
              val |-> [amount_in_with_fees |-> c.val.amount_in_with_fees,
                       amount_out |-> c.val.amount_out,
                       fee |-> c.val.fee,
                       protocol_fee_after_host_fee |-> protocol_fee_after_host_fee.val,
                       host_fee |-> host_fee.val,
                       is_exact_out_amount |-> FALSE]]

\* swap(&mut self, amount_in, price, swap_for_y, lb_pair, host_fee_bps):
\* [ok, err, self: the bin after the call, val: the SwapResult].
\* host_fee_bps is -1 for None.
swap(bin, amount_in, price, swap_for_y, lb, host_fee_bps) ==
    Only({swap_settle(bin, swap_for_y, host_fee_bps, c) :
             c \in {swap_charge(bin, amount_in, price, swap_for_y, lb)}})

\* ------------------------------------------------------- BinArray
\* A bin array is [index, bins]: bins maps the ids of its range to bins.
bin_id_to_bin_array_index(bin_id) ==
    LET idx == Abs(bin_id) \div BINS_PER_ARRAY
        rem == Abs(bin_id) % BINS_PER_ARRAY
    IN  IF bin_id >= 0 THEN idx
        ELSE IF rem # 0 THEN 0 - idx - 1 ELSE 0 - idx

get_bin_array_lower_upper_bin_id(index) ==
    <<index * BINS_PER_ARRAY, index * BINS_PER_ARRAY + BINS_PER_ARRAY - 1>>

is_bin_id_within_range(bin_array, bin_id) ==
    /\ bin_id >= get_bin_array_lower_upper_bin_id(bin_array.index)[1]
    /\ bin_id <= get_bin_array_lower_upper_bin_id(bin_array.index)[2]

\* The address of a bin array is derived from the pool and the index alone:
\* the key of the bin-array map stands for the index it was derived from.
derive_bin_array_pda(idx) == idx

\* ------------------------------------------ bitmap extension navigator
\* The extension is [present, bits]: Option<&BinArrayBitmapExtension> and the
\* set of bin-array indices whose bit is set in it; it covers the indices outside the internal range up to
\* BIN_ARRAY_BITMAP_SIZE * (EXTENSION_BINARRAY_BITMAP_SIZE + 1) on each side.
EXTENSION_BINARRAY_BITMAP_SIZE == 12

extension_bitmap_range ==
    <<0 - BIN_ARRAY_BITMAP_SIZE * (EXTENSION_BINARRAY_BITMAP_SIZE + 1),
      BIN_ARRAY_BITMAP_SIZE * (EXTENSION_BINARRAY_BITMAP_SIZE + 1) - 1>>

extension_next_bin_array_index_with_liquidity(ext, swap_for_y, start_index) ==
    LET lo == extension_bitmap_range[1]
        hi == extension_bitmap_range[2]
        below == {i \in ext.bits : i <= start_index /\ i >= (IF start_index > 0
                                                       THEN BIN_ARRAY_BITMAP_SIZE ELSE lo)}
        above == {i \in ext.bits : i >= start_index /\ i <= (IF start_index > 0
                                                       THEN hi ELSE 0 - BIN_ARRAY_BITMAP_SIZE - 1)}
    IN  IF start_index < lo \/ start_index > hi THEN Err("BinArrayIndexOutOfBounds")
        ELSE IF start_index > 0
        THEN IF swap_for_y
             THEN IF below # {} THEN Ok(<<SetMax(below), TRUE>>)
                  ELSE Ok(<<BIN_ARRAY_BITMAP_SIZE - 1, FALSE>>)
             ELSE IF above # {} THEN Ok(<<SetMin(above), TRUE>>)
                  ELSE Err("CannotFindNonZeroLiquidityBinArrayId")
        ELSE IF swap_for_y
             THEN IF below # {} THEN Ok(<<SetMax(below), TRUE>>)
                  ELSE Err("CannotFindNonZeroLiquidityBinArrayId")
             ELSE IF above # {} THEN Ok(<<SetMin(above), TRUE>>)
                  ELSE Ok(<<0 - BIN_ARRAY_BITMAP_SIZE, FALSE>>)

\* ------------------------------------------------------ quote.rs
\* The loop of get_bin_array_pubkeys_for_swap: the indices collected from
\* start_bin_array_idx on, appended to bin_array_idx.
RECURSIVE collect_bin_array_idx(_, _, _, _, _, _)
collect_bin_array_idx(lb, ext, swap_for_y, take_count, start_bin_array_idx, bin_array_idx) ==
    LET increment == IF swap_for_y THEN 0 - 1 ELSE 1
    IN  IF Len(bin_array_idx) = take_count THEN bin_array_idx
        ELSE IF is_overflow_default_bin_array_bitmap(start_bin_array_idx)
        THEN IF ~ext.present THEN bin_array_idx
             ELSE LET r == extension_next_bin_array_index_with_liquidity(
                               ext, swap_for_y, start_bin_array_idx)
                  IN  IF ~r.ok THEN bin_array_idx
                      ELSE IF r.val[2]
                      THEN collect_bin_array_idx(lb, ext, swap_for_y, take_count,
                               r.val[1] + increment, Append(bin_array_idx, r.val[1]))
                      ELSE collect_bin_array_idx(lb, ext, swap_for_y, take_count,
                               r.val[1], bin_array_idx)
        ELSE LET r == next_bin_array_index_with_liquidity_internal(
                          lb, swap_for_y, start_bin_array_idx)
             IN  IF ~r.ok THEN bin_array_idx
                 ELSE IF r.val[2]
                 THEN collect_bin_array_idx(lb, ext, swap_for_y, take_count,
                          r.val[1] + increment, Append(bin_array_idx, r.val[1]))
                 ELSE collect_bin_array_idx(lb, ext, swap_for_y, take_count,
                          r.val[1], bin_array_idx)

\* One iteration of that loop from the cursor start_bin_array_idx:
\* [done: the loop was left, start_bin_array_idx and bin_array_idx after the
\* iteration, navigator: the navigator it invoked, from: the index it was
\* invoked with, result: what it returned].
pubkeys_iteration(lb, ext, swap_for_y, take_count, start_bin_array_idx, bin_array_idx) ==
    LET increment == IF swap_for_y THEN 0 - 1 ELSE 1
        overflow == is_overflow_default_bin_array_bitmap(start_bin_array_idx)
        left == [done |-> TRUE, start_bin_array_idx |-> start_bin_array_idx,
                 bin_array_idx |-> bin_array_idx, navigator |-> "none",
                 from |-> start_bin_array_idx, result |-> Err("NotInvoked")]
        r == IF overflow
             THEN extension_next_bin_array_index_with_liquidity(
                      ext, swap_for_y, start_bin_array_idx)
             ELSE next_bin_array_index_with_liquidity_internal(
                      lb, swap_for_y, start_bin_array_idx)
        invoked == [left EXCEPT !.navigator = IF overflow THEN "extension" ELSE "internal",
                                !.result = r]
    IN  IF Len(bin_array_idx) = take_count THEN left
        ELSE IF overflow /\ ~ext.present THEN left
        ELSE IF ~r.ok THEN invoked
        ELSE IF r.val[2]
        THEN [invoked EXCEPT !.done = FALSE,
                             !.start_bin_array_idx = r.val[1] + increment,
                             !.bin_array_idx = Append(bin_array_idx, r.val[1])]
        ELSE [invoked EXCEPT !.done = FALSE, !.start_bin_array_idx = r.val[1]]

get_bin_array_pubkeys_for_swap(lb, ext, swap_for_y, take_count) ==
    LET bin_array_idx == collect_bin_array_idx(lb, ext, swap_for_y, take_count,
                             bin_id_to_bin_array_index(lb.active_id), <<>>)
    IN  [i \in 1..Len(bin_array_idx) |-> derive_bin_array_pda(bin_array_idx[i])]

\* Variant of validate_swap_activation that opens the gate only after the
\* activation point.
validate_swap_activation_after(lb, current_timestamp, current_slot) ==
    IF lb.status # "Enabled" THEN Err("PairDisabled")
    ELSE IF lb.pair_type = "Permission"
    THEN LET current_point == IF lb.activation_type = "Slot" THEN current_slot
                              ELSE current_timestamp
         IN  IF current_point > lb.activation_point THEN Ok(TRUE) ELSE Err("PairDisabled")
    ELSE Ok(TRUE)

\* validate_swap_activation(lb_pair, current_timestamp, current_slot).
validate_swap_activation(lb, current_timestamp, current_slot) ==
    IF lb.status # "Enabled" THEN Err("PairDisabled")
    ELSE IF lb.pair_type = "Permission"
    THEN LET current_point == IF lb.activation_type = "Slot" THEN current_slot
                              ELSE current_timestamp
         IN  IF current_point >= lb.activation_point THEN Ok(TRUE) ELSE Err("PairDisabled")
    ELSE Ok(TRUE)

\* Transfer-fee helpers for mints without a transfer fee.
calculate_transfer_fee_excluded_amount(amount) == Ok(amount)
calculate_transfer_fee_included_amount(amount) == Ok(amount)

\* ================================================================ state
VARIABLES
    pool,               \* the caller's LbPair snapshot
    bin_arrays,         \* the caller's map: bin-array key -> [index, bins]
    bitmap_extension,   \* the caller's Option<&BinArrayBitmapExtension>
    clock,              \* [unix_timestamp, slot]
    lb_pair,            \* the quote's local copy of the pool
    active_bin_array,   \* the quote's clone of the selected bin array
    q,                  \* the running quote: its arguments, locals and position
    first,              \* the finished first quote of a round trip
    bin,                \* the bin of a sequence of direct Bin::swap calls
    call                \* the last direct call of an operation and what it returned

vars == <<pool, bin_arrays, bitmap_extension, clock, lb_pair, active_bin_array,
          q, first, bin, call>>

NoArray == [loaded |-> FALSE, index |-> 0, bins |-> <<>>]
NoFirst == [set |-> FALSE]
NoBin == [amount_x |-> 0, amount_y |-> 0, price |-> 0]
NoCall == [op |-> "none"]
NoExtension == [present |-> FALSE, bits |-> {}]
NoQuote == [pc |-> "Idle"]

\* The locals of quote_exact_in / quote_exact_out at entry.  amount is
\* amount_left (exact in) or the remaining amount_out (exact out);
\* total_amount is total_amount_out (exact in) or total_amount_in (exact out).
\* visited, swapped and refs count the bins loaded, the bins swapped in and
\* the calls of update_references; last_swapped is the id of the last bin
\* swapped in (read when swapped > 0).
NewQuote(kind, swap_for_y, request) ==
    [pc |-> "Init", kind |-> kind, swap_for_y |-> swap_for_y, request |-> request,
     amount |-> 0, total_amount |-> 0, total_fee |-> 0,
     outcome |-> "Running", quote_amount |-> 0, quote_fee |-> 0,
     visited |-> 0, swapped |-> 0, refs |-> 0, last_swapped |-> 0]

Fail(e) == [q EXCEPT !.pc = "Failed", !.outcome = e]

\* ------------------------------------------------------------ the quote
\* quote.rs 58-62 / 165-169: the activation check.
Validate ==
    /\ q.pc = "Init"
    /\ LET r == validate_swap_activation(pool, as_u64(clock.unix_timestamp), clock.slot)
       IN  q' = IF r.ok THEN [q EXCEPT !.pc = "UpdateRefs"] ELSE Fail(r.err)
    /\ UNCHANGED <<pool, bin_arrays, bitmap_extension, clock, lb_pair, active_bin_array,
                   first, bin, call>>

\* quote.rs 64-77 / 171-186: copy the pool, update the references, apply the
\* transfer fee of the mint to the requested amount.
UpdateRefs ==
    /\ q.pc = "UpdateRefs"
    /\ LET r == update_references(pool, as_i64(as_u64(clock.unix_timestamp)))
           a == IF q.kind = "exact_in"
                THEN calculate_transfer_fee_excluded_amount(q.request)
                ELSE calculate_transfer_fee_included_amount(q.request)
       IN  /\ lb_pair' = r.self
           /\ q' = IF ~r.ok THEN [Fail(r.err) EXCEPT !.refs = q.refs + 1]
                   ELSE IF ~a.ok THEN [Fail(a.err) EXCEPT !.refs = q.refs + 1]
                   ELSE [q EXCEPT !.pc = "SelectBinArray", !.amount = a.val,
                                  !.refs = q.refs + 1]
    /\ UNCHANGED <<pool, bin_arrays, bitmap_extension, clock, active_bin_array,
                   first, bin, call>>

\* quote.rs 79-93 / 188-205: the head of the outer loop.
SelectBinArray ==
    /\ q.pc = "SelectBinArray"
    /\ IF q.amount = 0
       THEN /\ q' = [q EXCEPT !.pc = "Finalize"]
            /\ UNCHANGED active_bin_array
       ELSE LET keys == get_bin_array_pubkeys_for_swap(lb_pair, bitmap_extension,
                                                       q.swap_for_y, 1)
            IN  IF Len(keys) = 0
                THEN /\ q' = Fail("PoolOutOfLiquidity")
                     /\ UNCHANGED active_bin_array
                ELSE IF keys[Len(keys)] \notin DOMAIN bin_arrays
                THEN /\ q' = Fail("BinArrayNotFound")
                     /\ UNCHANGED active_bin_array
                ELSE /\ q' = [q EXCEPT !.pc = "ConsumeBin"]
                     /\ active_bin_array' =
                            [loaded |-> TRUE,
                             index |-> bin_arrays[keys[Len(keys)]].index,
                             bins |-> bin_arrays[keys[Len(keys)]].bins]
    /\ UNCHANGED <<pool, bin_arrays, bitmap_extension, clock, lb_pair, first, bin, call>>

\* quote.rs 232-239: the totals of an exact-in quote after the swap sw.
\* [ok, err, self: the bin after, amount, total_amount, total_fee]
exact_in_totals(sw) ==
    LET amount_left == IF sw.ok THEN checked_sub(q.amount, sw.val.amount_in_with_fees)
                       ELSE sw
        total_amount_out == IF amount_left.ok
                            THEN checked_add(q.total_amount, sw.val.amount_out)
                            ELSE amount_left
        total_fee == IF total_amount_out.ok THEN checked_add(q.total_fee, sw.val.fee)
                     ELSE total_amount_out
    IN  IF ~total_fee.ok
        THEN [ok |-> FALSE, err |-> total_fee.err, self |-> sw.self]
        ELSE [ok |-> TRUE, err |-> "None", self |-> sw.self, amount |-> amount_left.val,
              total_amount |-> total_amount_out.val, total_fee |-> total_fee.val]

\* quote.rs 224-240: the active bin of an exact-in quote.
consume_exact_in(active_bin, price, lb) ==
    Only({exact_in_totals(sw) :
             sw \in {swap(active_bin, q.amount, price, q.swap_for_y, lb, 0 - 1)}})

\* Variant of consume_exact_out without the clamp to the reserve of the bin.
consume_exact_out_unclamped(active_bin, price, lb) ==
    LET amount_in == get_amount_in(q.amount, price, q.swap_for_y)
        fee == IF amount_in.ok THEN compute_fee(lb, amount_in.val) ELSE amount_in
        total_amount_in == IF fee.ok THEN checked_add(q.total_amount, amount_in.val)
                           ELSE fee
        total_fee == IF total_amount_in.ok THEN checked_add(q.total_fee, fee.val)
                     ELSE total_amount_in
    IN  IF ~total_fee.ok
        THEN [ok |-> FALSE, err |-> total_fee.err, self |-> active_bin]
        ELSE [ok |-> TRUE, err |-> "None", self |-> active_bin, amount |-> 0,
              total_amount |-> total_amount_in.val, total_fee |-> total_fee.val]

\* Variant of consume_exact_out that takes the fee as the fee inside the
\* gross input.
consume_exact_out_fee_inside(active_bin, price, lb) ==
    LET bin_max_amount_out == get_max_amount_out(active_bin, q.swap_for_y)
        full == q.amount >= bin_max_amount_out
        amount_in == IF full THEN get_max_amount_in(active_bin, price, q.swap_for_y)
                     ELSE get_amount_in(q.amount, price, q.swap_for_y)
        fee == IF amount_in.ok THEN compute_fee_from_amount(lb, amount_in.val) ELSE amount_in
        total_amount_in == IF fee.ok THEN checked_add(q.total_amount, amount_in.val)
                           ELSE fee
        total_fee == IF total_amount_in.ok THEN checked_add(q.total_fee, fee.val)
                     ELSE total_amount_in
        amount_out == IF ~total_fee.ok THEN total_fee
                      ELSE IF full THEN checked_sub(q.amount, bin_max_amount_out)
                      ELSE Ok(0)
    IN  IF ~amount_out.ok
        THEN [ok |-> FALSE, err |-> amount_out.err, self |-> active_bin]
        ELSE [ok |-> TRUE, err |-> "None", self |-> active_bin, amount |-> amount_out.val,
              total_amount |-> total_amount_in.val, total_fee |-> total_fee.val]

\* quote.rs 106-131: the active bin of an exact-out quote.
consume_exact_out(active_bin, price, lb) ==
    LET bin_max_amount_out == get_max_amount_out(active_bin, q.swap_for_y)
        full == q.amount >= bin_max_amount_out
        amount_in == IF full THEN get_max_amount_in(active_bin, price, q.swap_for_y)
                     ELSE get_amount_in(q.amount, price, q.swap_for_y)
        fee == IF amount_in.ok THEN compute_fee(lb, amount_in.val) ELSE amount_in
        total_amount_in == IF fee.ok THEN checked_add(q.total_amount, amount_in.val)
                           ELSE fee
        total_fee == IF total_amount_in.ok THEN checked_add(q.total_fee, fee.val)
                     ELSE total_amount_in
        amount_out == IF ~total_fee.ok THEN total_fee
                      ELSE IF full THEN checked_sub(q.amount, bin_max_amount_out)
                      ELSE Ok(0)
    IN  IF ~amount_out.ok
        THEN [ok |-> FALSE, err |-> amount_out.err, self |-> active_bin]
        ELSE [ok |-> TRUE, err |-> "None", self |-> active_bin, amount |-> amount_out.val,
              total_amount |-> total_amount_in.val, total_fee |-> total_fee.val]

consume(kind, active_bin, price, lb) ==
    IF kind = "exact_in" THEN consume_exact_in(active_bin, price, lb)
    ELSE consume_exact_out(active_bin, price, lb)

\* quote.rs 100-132 / 216-240: the active bin is loaded (va: the pool after
\* update_volatility_accumulator, pr: the bin with its price, r: the bin and
\* the totals after the bin is consumed).  The locals after the pass.
consume_loaded(id, va, pr, r) ==
    IF ~va.ok
    THEN [q |-> Fail(va.err), lb_pair |-> va.self, active_bin_array |-> active_bin_array]
    ELSE IF is_empty(pr.self, ~q.swap_for_y)
    THEN [q |-> [q EXCEPT !.pc = "Advance", !.visited = q.visited + 1],
          lb_pair |-> va.self,
          active_bin_array |-> [active_bin_array EXCEPT !.bins[id] = pr.self]]
    ELSE [q |-> IF ~r.ok
                THEN [Fail(r.err) EXCEPT !.visited = q.visited + 1]
                ELSE [q EXCEPT !.pc = "Advance",
                               !.amount = r.amount,
                               !.total_amount = r.total_amount,
                               !.total_fee = r.total_fee,
                               !.visited = q.visited + 1,
                               !.swapped = q.swapped + 1,
                               !.last_swapped = id],
          lb_pair |-> va.self,
          active_bin_array |-> [active_bin_array EXCEPT !.bins[id] = r.self]]

consume_priced(id, va, pr) ==
    Only({consume_loaded(id, va, pr, r) :
             r \in {consume(q.kind, pr.self, pr.val, va.self)}})

\* quote.rs 95-132 / 208-240: the locals after one pass of the inner loop
\* up to the swap; the loop is left when active_id is outside the array.
consume_bin ==
    IF ~is_bin_id_within_range(active_bin_array, lb_pair.active_id) \/ q.amount = 0
    THEN [q |-> [q EXCEPT !.pc = "SelectBinArray"], lb_pair |-> lb_pair,
          active_bin_array |-> NoArray]
    ELSE Only({consume_priced(lb_pair.active_id, va, pr) :
                  va \in {update_volatility_accumulator(lb_pair)},
                  pr \in {get_or_store_bin_price(active_bin_array.bins[lb_pair.active_id],
                                                 lb_pair.active_id, lb_pair.bin_step)}})

\* Variant of ConsumeBin that works on the bin array of the map itself
\* instead of a clone of it.
ConsumeBinInPlace ==
    /\ q.pc = "ConsumeBin"
    /\ \E next \in {consume_bin} :
          /\ q' = next.q
          /\ lb_pair' = next.lb_pair
          /\ active_bin_array' = next.active_bin_array
          /\ bin_arrays' =
                 IF next.active_bin_array.loaded
                 THEN [bin_arrays EXCEPT ![derive_bin_array_pda(active_bin_array.index)].bins =
                                            next.active_bin_array.bins]
                 ELSE bin_arrays
    /\ UNCHANGED <<pool, bitmap_extension, clock, first, bin, call>>

ConsumeBin ==
    /\ q.pc = "ConsumeBin"
    /\ \E next \in {consume_bin} :
          /\ q' = next.q
          /\ lb_pair' = next.lb_pair
          /\ active_bin_array' = next.active_bin_array
    /\ UNCHANGED <<pool, bin_arrays, bitmap_extension, clock, first, bin, call>>

\* Variant of Advance that moves the active bin after every bin, whether or
\* not anything is left of the amount.
AdvanceAlways ==
    /\ q.pc = "Advance"
    /\ LET r == advance_active_bin(lb_pair, q.swap_for_y)
       IN  /\ lb_pair' = r.self
           /\ q' = IF r.ok THEN [q EXCEPT !.pc = "ConsumeBin"] ELSE Fail(r.err)
    /\ UNCHANGED <<pool, bin_arrays, bitmap_extension, clock, active_bin_array,
                   first, bin, call>>

\* quote.rs 134-136 / 242-244: the end of a pass of the inner loop.
Advance ==
    /\ q.pc = "Advance"
    /\ IF q.amount > 0
       THEN LET r == advance_active_bin(lb_pair, q.swap_for_y)
            IN  /\ lb_pair' = r.self
                /\ q' = IF r.ok THEN [q EXCEPT !.pc = "ConsumeBin"] ELSE Fail(r.err)
       ELSE /\ q' = [q EXCEPT !.pc = "ConsumeBin"]
            /\ UNCHANGED lb_pair
    /\ UNCHANGED <<pool, bin_arrays, bitmap_extension, clock, active_bin_array,
                   first, bin, call>>

\* quote.rs 140-150 / 248-254: the returned quote.
Finalize ==
    /\ q.pc = "Finalize"
    /\ LET total_amount_in == checked_add(q.total_amount, q.total_fee)
           gross_in == IF total_amount_in.ok
                       THEN calculate_transfer_fee_included_amount(total_amount_in.val)
                       ELSE total_amount_in
           net_out == calculate_transfer_fee_excluded_amount(q.total_amount)
           r == IF q.kind = "exact_in" THEN net_out ELSE gross_in
       IN  q' = IF ~r.ok THEN Fail(r.err)
                ELSE [q EXCEPT !.pc = "Done", !.outcome = "Quote",
                               !.quote_amount = r.val, !.quote_fee = q.total_fee]
    /\ UNCHANGED <<pool, bin_arrays, bitmap_extension, clock, lb_pair, active_bin_array,
                   first, bin, call>>

\* quote.rs 443-474 (test_swap_quote_exact_out): the opposite quote on the
\* same snapshot and clock.  After an exact-out quote the test asks for
\* amount_in + fee; after an exact-in quote the request is amount_out.
Opposite(kind) == IF kind = "exact_in" THEN "exact_out" ELSE "exact_in"

SecondRequest ==
    IF q.kind = "exact_out" THEN q.quote_amount + q.quote_fee ELSE q.quote_amount

SecondQuote ==
    /\ q.pc = "Done"
    /\ ~first.set
    /\ SecondRequest <= U64_MAX
    /\ first' = [set |-> TRUE, kind |-> q.kind, request |-> q.request,
                 quote_amount |-> q.quote_amount, quote_fee |-> q.quote_fee,
                 visited |-> q.visited, swapped |-> q.swapped,
                 active_id |-> lb_pair.active_id]
    /\ q' = NewQuote(Opposite(q.kind), q.swap_for_y, SecondRequest)
    /\ lb_pair' = pool
    /\ active_bin_array' = NoArray
    /\ UNCHANGED <<pool, bin_arrays, bitmap_extension, clock, bin, call>>

\* quote_exact_in for the amount_in an exact-out quote returned, on the same
\* snapshot, direction and clock.
PayQuotedAmount ==
    /\ q.pc = "Done"
    /\ ~first.set
    /\ q.kind = "exact_out"
    /\ first' = [set |-> TRUE, kind |-> q.kind, request |-> q.request,
                 quote_amount |-> q.quote_amount, quote_fee |-> q.quote_fee,
                 visited |-> q.visited, swapped |-> q.swapped,
                 active_id |-> lb_pair.active_id]
    /\ q' = NewQuote("exact_in", q.swap_for_y, q.quote_amount)
    /\ lb_pair' = pool
    /\ active_bin_array' = NoArray
    /\ UNCHANGED <<pool, bin_arrays, bitmap_extension, clock, bin, call>>

NextQuote ==
    \/ Validate
    \/ UpdateRefs
    \/ SelectBinArray
    \/ ConsumeBin
    \/ Advance
    \/ Finalize
    \/ SecondQuote
    \/ PayQuotedAmount

\* ======================================================== snapshots
\* The bounds of the snapshots the specifications start from.
MaxRequest == 8
Reserve == 3
MemoPrice == 2
MaxPoint == 2

MkPool(active_id, bits, gate, s_params, v_params) ==
    [active_id |-> active_id,
     bin_step |-> 1,
     status |-> gate.status,
     pair_type |-> gate.pair_type,
     activation_type |-> gate.activation_type,
     activation_point |-> gate.activation_point,
     parameters |-> s_params,
     v_parameters |-> v_params,
     bin_array_bitmap |-> {i + BIN_ARRAY_BITMAP_SIZE : i \in bits}]

OpenGate == [status |-> "Enabled", pair_type |-> "Permissionless",
             activation_type |-> "Slot", activation_point |-> 0]

StaticParams(base_factor, variable_fee_control) ==
    [base_factor |-> base_factor, base_fee_power_factor |-> 0,
     filter_period |-> 1, decay_period |-> 3, reduction_factor |-> 5,
     variable_fee_control |-> variable_fee_control,
     max_volatility_accumulator |-> 2 * BASIS_POINT_MAX, protocol_share |-> 2]

VParams == [last_update_timestamp |-> 0, index_reference |-> 0,
            volatility_reference |-> 0, volatility_accumulator |-> 4]

BinIdsOf(index) ==
    get_bin_array_lower_upper_bin_id(index)[1] .. get_bin_array_lower_upper_bin_id(index)[2]

\* The map with the bin arrays `present`, bin id holding fill[id] of each
\* token and the memoized price memo.
MkArrays(present, fill, memo) ==
    [a \in {derive_bin_array_pda(i) : i \in present} |->
        [index |-> a,
         bins |-> [id \in BinIdsOf(a) |->
                      [amount_x |-> fill[id], amount_y |-> fill[id], price |-> memo]]]]

\* The bin arrays a quote from bin array 0 can come to.
ArraysAhead(swap_for_y) == IF swap_for_y THEN {0 - 1, 0} ELSE {0, 1}

\* The bin array of the last bin id in the swap direction.
LastArray(swap_for_y) ==
    bin_id_to_bin_array_index(IF swap_for_y THEN MIN_BIN_ID ELSE MAX_BIN_ID)

InitState(p, arrays, ext, clk, kind, swap_for_y, request) ==
    /\ pool = p
    /\ bin_arrays = arrays
    /\ bitmap_extension = ext
    /\ clock = clk
    /\ lb_pair = p
    /\ active_bin_array = NoArray
    /\ q = NewQuote(kind, swap_for_y, request)
    /\ first = NoFirst
    /\ bin = NoBin
    /\ call = NoCall

\* The stored prices of the bins of a snapshot: none (the price is computed
\* from the bin id), one below 1 and one above 1.
MemoPrices == {0, MemoPrice, 3 * Pow2(SCALE_OFFSET)}

\* The <<base_factor, variable_fee_control>> of a snapshot: no fee, the
\* variable fee alone, both fees.
FeeSettings == {<<0, 0>>, <<0, 1>>, <<1, 1>>}

\* Quotes of every kind, direction and amount on pools around bin array 0.
InitMiddle ==
    \E swap_for_y \in BOOLEAN, kind \in {"exact_in", "exact_out"},
       request \in 0..MaxRequest, active_id \in BinIdsOf(0) :
      \E bits \in SUBSET ArraysAhead(swap_for_y),
         present \in SUBSET ArraysAhead(swap_for_y),
         memo \in MemoPrices, fees \in FeeSettings :
        \E fill \in [UNION {BinIdsOf(a) : a \in present} -> {0, Reserve}] :
          InitState(MkPool(active_id, bits, OpenGate,
                           StaticParams(fees[1], fees[2]), VParams),
                    MkArrays(present, fill, memo), NoExtension,
                    [unix_timestamp |-> 2, slot |-> 2], kind, swap_for_y, request)

\* Quotes on pools whose active bin is in the last bin array of the swap
\* direction, with the prices of its bins stored.
InitLast ==
    \E swap_for_y \in BOOLEAN, kind \in {"exact_in", "exact_out"},
       request \in {1, Reserve, MaxRequest} :
      \E active_id \in {id \in BinIdsOf(LastArray(swap_for_y)) :
                             id >= MIN_BIN_ID /\ id <= MAX_BIN_ID},
         fill \in [BinIdsOf(LastArray(swap_for_y)) -> {0, Reserve}] :
          InitState(MkPool(active_id, {LastArray(swap_for_y)}, OpenGate,
                           StaticParams(1, 1), VParams),
                    MkArrays({LastArray(swap_for_y)}, fill, MemoPrice), NoExtension,
                    [unix_timestamp |-> 2, slot |-> 2], kind, swap_for_y, request)

\* Quotes on pools whose bins hold a reserve so large that the input that
\* would buy it all can leave the u64 range.
InitDeep ==
    \E swap_for_y \in BOOLEAN, kind \in {"exact_in", "exact_out"},
       request \in {1, Reserve, MaxRequest},
       memo \in MemoPrices, fees \in FeeSettings :
        InitState(MkPool(0, {0}, OpenGate, StaticParams(fees[1], fees[2]), VParams),
                  MkArrays({0}, [id \in Int |-> 2 * Reserve], memo), NoExtension,
                  [unix_timestamp |-> 2, slot |-> 2], kind, swap_for_y, request)

Init == InitMiddle \/ InitLast \/ InitDeep

Spec == Init /\ [][NextQuote]_vars

\* The same quotes on the pools with computed prices and both fee parts.
InitFair ==
    \E swap_for_y \in BOOLEAN, kind \in {"exact_in", "exact_out"},
       request \in {0, Reserve, MaxRequest}, active_id \in BinIdsOf(0) :
      \E bits \in SUBSET ArraysAhead(swap_for_y),
         present \in SUBSET ArraysAhead(swap_for_y) :
        \E fill \in [UNION {BinIdsOf(a) : a \in present} -> {0, Reserve}] :
          InitState(MkPool(active_id, bits, OpenGate, StaticParams(1, 1), VParams),
                    MkArrays(present, fill, 0), NoExtension,
                    [unix_timestamp |-> 2, slot |-> 2], kind, swap_for_y, request)

\* A quote is straight-line code: it keeps running while a step is left.
FairSpec == InitFair /\ [][NextQuote]_vars /\ WF_vars(NextQuote)

\* Quotes on a pool with liquidity ahead, under every setting of the
\* activation gate and every clock up to MaxPoint.
InitGate ==
    \E swap_for_y \in BOOLEAN, kind \in {"exact_in", "exact_out"},
       status \in {"Enabled", "Disabled"},
       pair_type \in {"Permissionless", "Permission", "CustomizablePermissionless"},
       activation_type \in {"Slot", "Timestamp"},
       activation_point \in 0..MaxPoint,
       unix_timestamp \in 0..MaxPoint, slot \in 0..MaxPoint :
        InitState(MkPool(0, ArraysAhead(swap_for_y),
                         [status |-> status, pair_type |-> pair_type,
                          activation_type |-> activation_type,
                          activation_point |-> activation_point],
                         StaticParams(1, 1), VParams),
                  MkArrays(ArraysAhead(swap_for_y), [id \in Int |-> Reserve], 0),
                  NoExtension,
                  [unix_timestamp |-> unix_timestamp, slot |-> slot],
                  kind, swap_for_y, Reserve + 1)

SpecGate == InitGate /\ [][NextQuote]_vars

\* Quotes on a pool with liquidity ahead, under every filter and decay period
\* up to MaxPeriod, every time since the last update and any stored
\* volatility reference and accumulator.
MaxPeriod == 3

InitIdle ==
    \E swap_for_y \in BOOLEAN, kind \in {"exact_in", "exact_out"},
       request \in {1, Reserve + 1},
       filter_period \in 0..MaxPeriod, decay_period \in 0..MaxPeriod,
       last_update_timestamp \in {0 - MaxPoint, 0, MaxPoint},
       unix_timestamp \in 0..MaxPoint,
       volatility_reference \in {0, Reserve}, volatility_accumulator \in {0, 4} :
        InitState(MkPool(0, ArraysAhead(swap_for_y), OpenGate,
                         [StaticParams(1, 1) EXCEPT !.filter_period = filter_period,
                                                    !.decay_period = decay_period],
                         [last_update_timestamp |-> last_update_timestamp,
                          index_reference |-> 1,
                          volatility_reference |-> volatility_reference,
                          volatility_accumulator |-> volatility_accumulator]),
                  MkArrays(ArraysAhead(swap_for_y), [id \in Int |-> Reserve], MemoPrice),
                  NoExtension,
                  [unix_timestamp |-> unix_timestamp, slot |-> 0],
                  kind, swap_for_y, request)

SpecIdle == InitIdle /\ [][NextQuote]_vars

\* ---------------------------------------------------- direct calls
\* The caller of a direct call is done with what the call returned.
Return ==
    /\ q.pc = "Idle"
    /\ call.op # "none"
    /\ call' = NoCall
    /\ UNCHANGED <<pool, bin_arrays, bitmap_extension, clock, lb_pair, active_bin_array,
                   q, first, bin>>

\* ------------------------------------------------- the navigator alone
\* The bin-array indices whose bits the bitmaps of SpecNav are drawn from:
\* the two ends of the internal range and the middle.
NavIndices ==
    {bitmap_range[1], bitmap_range[1] + 1, 0 - 1, 0, 1, bitmap_range[2] - 1, bitmap_range[2]}

MaxTake == 3

\* A direct call of next_bin_array_index_with_liquidity_internal on the pool.
NextBinArrayIndex ==
    /\ q.pc = "Idle"
    /\ call.op = "none"
    /\ \E swap_for_y \in BOOLEAN, start_array_index \in NavIndices :
          call' = [op |-> "next_bin_array_index_with_liquidity_internal",
                   swap_for_y |-> swap_for_y,
                   start_array_index |-> start_array_index,
                   result |-> next_bin_array_index_with_liquidity_internal(
                                  pool, swap_for_y, start_array_index)]
    /\ UNCHANGED <<pool, bin_arrays, bitmap_extension, clock, lb_pair, active_bin_array,
                   q, first, bin>>

\* A direct call of get_bin_array_pubkeys_for_swap on the pool.
BinArrayPubkeys ==
    /\ q.pc = "Idle"
    /\ call.op = "none"
    /\ \E swap_for_y \in BOOLEAN, take_count \in 0..MaxTake :
          call' = [op |-> "get_bin_array_pubkeys_for_swap",
                   swap_for_y |-> swap_for_y,
                   take_count |-> take_count,
                   result |-> get_bin_array_pubkeys_for_swap(
                                  pool, bitmap_extension, swap_for_y, take_count)]
    /\ UNCHANGED <<pool, bin_arrays, bitmap_extension, clock, lb_pair, active_bin_array,
                   q, first, bin>>

NextNav ==
    \/ NextBinArrayIndex
    \/ BinArrayPubkeys
    \/ Return

\* Every bitmap over NavIndices, the active bin in any of these bin arrays,
\* no bitmap extension.
InitNav ==
    \E bits \in SUBSET NavIndices, c \in NavIndices :
      \E active_id \in {id \in BinIdsOf(c) : id >= MIN_BIN_ID /\ id <= MAX_BIN_ID} :
        /\ pool = MkPool(active_id, bits, OpenGate, StaticParams(1, 1), VParams)
        /\ bin_arrays = <<>>
        /\ bitmap_extension = NoExtension
        /\ clock = [unix_timestamp |-> 0, slot |-> 0]
        /\ lb_pair = pool
        /\ active_bin_array = NoArray
        /\ q = NoQuote
        /\ first = NoFirst
        /\ bin = NoBin
        /\ call = NoCall

SpecNav == InitNav /\ [][NextNav]_vars

\* ------------------------------------- the bin-array search step by step
\* The bin-array indices of the internal bitmap and of the extension that
\* the pools of SpecCursor set bits for and start from.  (The bin ids of the
\* source reach bin arrays far outside the internal bitmap; the active bin
\* of these pools may lie in a bin array next to it.)
CursorIndices == {bitmap_range[1], 0, bitmap_range[2]}
ExtensionIndices ==
    {bitmap_range[1] - 2, bitmap_range[1] - 1, bitmap_range[2] + 1, bitmap_range[2] + 2}

\* get_bin_array_pubkeys_for_swap is entered: quote.rs 270-276.
StartPubkeys ==
    /\ q.pc = "Idle"
    /\ call.op = "none"
    /\ \E swap_for_y \in BOOLEAN, take_count \in 0..MaxTake :
          call' = [op |-> "pubkeys_loop", swap_for_y |-> swap_for_y,
                   take_count |-> take_count, done |-> FALSE,
                   start_bin_array_idx |-> bin_id_to_bin_array_index(pool.active_id),
                   bin_array_idx |-> <<>>, navigator |-> "none",
                   from |-> bin_id_to_bin_array_index(pool.active_id),
                   result |-> Err("NotInvoked")]
    /\ UNCHANGED <<pool, bin_arrays, bitmap_extension, clock, lb_pair, active_bin_array,
                   q, first, bin>>

\* One iteration of its loop: quote.rs 279-354.
PubkeysIteration ==
    /\ q.pc = "Idle"
    /\ call.op = "pubkeys_loop"
    /\ ~call.done
    /\ \E it \in {pubkeys_iteration(pool, bitmap_extension, call.swap_for_y,
                                     call.take_count, call.start_bin_array_idx,
                                     call.bin_array_idx)} :
          call' = [op |-> "pubkeys_loop", swap_for_y |-> call.swap_for_y,
                   take_count |-> call.take_count, done |-> it.done,
                   start_bin_array_idx |-> it.start_bin_array_idx,
                   bin_array_idx |-> it.bin_array_idx, navigator |-> it.navigator,
                   from |-> it.from, result |-> it.result]
    /\ UNCHANGED <<pool, bin_arrays, bitmap_extension, clock, lb_pair, active_bin_array,
                   q, first, bin>>

\* The loop was left and the keys are returned: quote.rs 356-362.
ReturnPubkeys ==
    /\ q.pc = "Idle"
    /\ call.op = "pubkeys_loop"
    /\ call.done
    /\ call' = NoCall
    /\ UNCHANGED <<pool, bin_arrays, bitmap_extension, clock, lb_pair, active_bin_array,
                   q, first, bin>>

NextCursor ==
    \/ StartPubkeys
    \/ PubkeysIteration
    \/ ReturnPubkeys

\* Every bitmap over CursorIndices, no extension or an extension with any
\* bits over ExtensionIndices, the active bin in any of these bin arrays.
InitCursor ==
    \E bits \in SUBSET CursorIndices, c \in CursorIndices \cup ExtensionIndices,
       ext \in {NoExtension} \cup {[present |-> TRUE, bits |-> e] :
                                        e \in SUBSET ExtensionIndices} :
        /\ pool = MkPool(get_bin_array_lower_upper_bin_id(c)[1], bits, OpenGate,
                         StaticParams(1, 1), VParams)
        /\ bin_arrays = <<>>
        /\ bitmap_extension = ext
        /\ clock = [unix_timestamp |-> 0, slot |-> 0]
        /\ lb_pair = pool
        /\ active_bin_array = NoArray
        /\ q = NoQuote
        /\ first = NoFirst
        /\ bin = NoBin
        /\ call = NoCall

SpecCursor == InitCursor /\ [][NextCursor]_vars

\* ------------------------------------------------------ one bin alone
\* The prices a direct Bin::swap call is given: below, at and above 1.
BinPrices == {MemoPrice, Pow2(SCALE_OFFSET), 3 * Pow2(SCALE_OFFSET)}

\* A direct call of Bin::swap on the bin, one of a sequence of calls.
BinSwap ==
    /\ q.pc = "Idle"
    /\ call.op = "none"
    /\ \E amount_in \in 0..MaxRequest, price \in BinPrices, swap_for_y \in BOOLEAN,
          host_fee_bps \in {0 - 1, 0, BASIS_POINT_MAX \div 2} :
          \E r \in {swap(bin, amount_in, price, swap_for_y, pool, host_fee_bps)} :
            /\ bin' = r.self
            /\ call' = [op |-> "swap", before |-> bin, amount_in |-> amount_in,
                        price |-> price, swap_for_y |-> swap_for_y,
                        host_fee_bps |-> host_fee_bps, result |-> r]
    /\ UNCHANGED <<pool, bin_arrays, bitmap_extension, clock, lb_pair, active_bin_array,
                   q, first>>

NextBin ==
    \/ BinSwap
    \/ Return

\* Bins with any reserves up to Reserve, pools with and without each fee part.
InitBin ==
    \E amount_x \in 0..Reserve, amount_y \in 0..Reserve,
       base_factor \in 0..1, variable_fee_control \in 0..1 :
        /\ pool = MkPool(0, {}, OpenGate,
                         StaticParams(base_factor, variable_fee_control), VParams)
        /\ bin_arrays = <<>>
        /\ bitmap_extension = NoExtension
        /\ clock = [unix_timestamp |-> 0, slot |-> 0]
        /\ lb_pair = pool
        /\ active_bin_array = NoArray
        /\ q = NoQuote
        /\ first = NoFirst
        /\ bin = [amount_x |-> amount_x, amount_y |-> amount_y, price |-> 0]
        /\ call = NoCall

SpecBin == InitBin /\ [][NextBin]_vars

\* ------------------------------------------- the volatility tracker alone
MaxDrift == 2

\* The timestamps of the direct calls: every i64 value.
Times == I64_MIN..I64_MAX

\* A direct call of update_references(now) on the pool.
UpdateReferences ==
    /\ q.pc = "Idle"
    /\ call.op = "none"
    /\ \E now \in Times :
          \E r \in {update_references(lb_pair, now)} :
            /\ lb_pair' = r.self
            /\ call' = [op |-> "update_references", now |-> now, before |-> lb_pair,
                        ok |-> r.ok]
    /\ UNCHANGED <<pool, bin_arrays, bitmap_extension, clock, active_bin_array,
                   q, first, bin>>

\* The same call again, right after the first, with the same timestamp.
UpdateReferencesAgain ==
    /\ q.pc = "Idle"
    /\ call.op = "update_references"
    /\ \E r \in {update_references(lb_pair, call.now)} :
          /\ lb_pair' = r.self
          /\ call' = [op |-> "update_references_again", now |-> call.now,
                      before |-> call.before, after_first |-> lb_pair,
                      first_ok |-> call.ok, ok |-> r.ok]
    /\ UNCHANGED <<pool, bin_arrays, bitmap_extension, clock, active_bin_array,
                   q, first, bin>>

\* A direct call of update_volatility_accumulator on the pool.
UpdateVolatilityAccumulator ==
    /\ q.pc = "Idle"
    /\ call.op = "none"
    /\ \E r \in {update_volatility_accumulator(lb_pair)} :
          /\ lb_pair' = r.self
          /\ call' = [op |-> "update_volatility_accumulator", before |-> lb_pair,
                      ok |-> r.ok]
    /\ UNCHANGED <<pool, bin_arrays, bitmap_extension, clock, active_bin_array,
                   q, first, bin>>

\* A direct call of advance_active_bin on the pool, MaxDrift bins around 0.
AdvanceActiveBin ==
    /\ q.pc = "Idle"
    /\ call.op = "none"
    /\ \E swap_for_y \in BOOLEAN :
          \E r \in {advance_active_bin(lb_pair, swap_for_y)} :
            /\ Abs(r.self.active_id) <= MaxDrift
            /\ lb_pair' = r.self
            /\ call' = [op |-> "advance_active_bin", before |-> lb_pair,
                        swap_for_y |-> swap_for_y, ok |-> r.ok]
    /\ UNCHANGED <<pool, bin_arrays, bitmap_extension, clock, active_bin_array,
                   q, first, bin>>

NextRefs ==
    \/ UpdateReferences
    \/ UpdateReferencesAgain
    \/ UpdateVolatilityAccumulator
    \/ AdvanceActiveBin
    \/ Return

\* Pools with any reduction factor, last update, references and accumulator.
InitRefs ==
    \E reduction_factor \in {0, BASIS_POINT_MAX \div 2, BASIS_POINT_MAX},
       last_update_timestamp \in {0 - MaxPoint, 0, MaxPoint},
       index_reference \in 0..1, volatility_reference \in {0, Reserve},
       volatility_accumulator \in {0, 2 * MaxPoint, U32_MAX \div 4} :
        /\ pool = MkPool(0, {}, OpenGate,
                         [StaticParams(1, 1) EXCEPT !.reduction_factor = reduction_factor],
                         [last_update_timestamp |-> last_update_timestamp,
                          index_reference |-> index_reference,
                          volatility_reference |-> volatility_reference,
                          volatility_accumulator |-> volatility_accumulator])
        /\ bin_arrays = <<>>
        /\ bitmap_extension = NoExtension
        /\ clock = [unix_timestamp |-> 0, slot |-> 0]
        /\ lb_pair = pool
        /\ active_bin_array = NoArray
        /\ q = NoQuote
        /\ first = NoFirst
        /\ bin = NoBin
        /\ call = NoCall

SpecRefs == InitRefs /\ [][NextRefs]_vars

\* ------------------------------------------------------ the fees alone
MaxBaseFactor == 3
MaxControl == 12

\* A direct call of compute_fee on two amounts x <= y.
ComputeFee ==
    /\ q.pc = "Idle"
    /\ call.op = "none"
    /\ \E y \in 0..U64_MAX :
          \E x \in 0..y :
            call' = [op |-> "compute_fee", x |-> x, y |-> y,
                     fx |-> compute_fee(pool, x), fy |-> compute_fee(pool, y)]
    /\ UNCHANGED <<pool, bin_arrays, bitmap_extension, clock, lb_pair, active_bin_array,
                   q, first, bin>>

\* A direct call of compute_fee_from_amount on two amounts x <= y.
ComputeFeeFromAmount ==
    /\ q.pc = "Idle"
    /\ call.op = "none"
    /\ \E y \in 0..U64_MAX :
          \E x \in 0..y :
            call' = [op |-> "compute_fee_from_amount", x |-> x, y |-> y,
                     fx |-> compute_fee_from_amount(pool, x),
                     fy |-> compute_fee_from_amount(pool, y)]
    /\ UNCHANGED <<pool, bin_arrays, bitmap_extension, clock, lb_pair, active_bin_array,
                   q, first, bin>>

NextFee ==
    \/ ComputeFee
    \/ ComputeFeeFromAmount
    \/ Return

\* Pools of every base factor and variable fee control up to the bounds: their
\* total fee rates cover 0..MAX_FEE_RATE.
InitFee ==
    \E base_factor \in 0..MaxBaseFactor, variable_fee_control \in 0..MaxControl :
        /\ pool = MkPool(0, {}, OpenGate, StaticParams(base_factor, variable_fee_control),
                         VParams)
        /\ bin_arrays = <<>>
        /\ bitmap_extension = NoExtension
        /\ clock = [unix_timestamp |-> 0, slot |-> 0]
        /\ lb_pair = pool
        /\ active_bin_array = NoArray
        /\ q = NoQuote
        /\ first = NoFirst
        /\ bin = NoBin
        /\ call = NoCall

SpecFee == InitFee /\ [][NextFee]_vars

\* ================================================================ claims
Terminated == q.pc \in {"Done", "Failed"}

\* C1: every run of quote_exact_in and of quote_exact_out terminates: it
\* eventually returns a quote or fails with an error.
C1_QuoteTerminates == <>Terminated

\* The state the quotes of C1 do not leave: the bin array of active_id has
\* its bit clear, a bin array further along has its bit set and is in the
\* map, and the inner loop has just left the selected array without a step.
C1_ActiveArrayBitClear ==
    /\ q.pc = "SelectBinArray"
    /\ q.visited = 0
    /\ q.amount > 0
    /\ bin_id_to_bin_array_index(lb_pair.active_id) + BIN_ARRAY_BITMAP_SIZE
           \notin lb_pair.bin_array_bitmap
    /\ Len(get_bin_array_pubkeys_for_swap(lb_pair, bitmap_extension, q.swap_for_y, 1)) = 1
    /\ get_bin_array_pubkeys_for_swap(lb_pair, bitmap_extension, q.swap_for_y, 1)[1]
           \in DOMAIN bin_arrays

\* The bin-array indices of the internal range whose bit is set in the pool.
SetIndices ==
    {k - BIN_ARRAY_BITMAP_SIZE :
        k \in {j \in pool.bin_array_bitmap : j >= 0 /\ j < U1024_BITS}}

\* The set indices from `from` on in the search direction.
SetIndicesFrom(swap_for_y, from) ==
    {i \in SetIndices : IF swap_for_y THEN i <= from ELSE i >= from}

\* C2: for every bitmap and every start index of the internal range,
\* next_bin_array_index_with_liquidity_internal returns (i, true) with i the
\* smallest set index >= start upward, the largest set index <= start
\* downward, and (512, false) upward or (-513, false) downward exactly when
\* there is no such index.
C2_NavigatorFindsNearest ==
    call.op = "next_bin_array_index_with_liquidity_internal" =>
        LET ahead == SetIndicesFrom(call.swap_for_y, call.start_array_index)
        IN  /\ call.result.ok
            /\ call.result.val =
                   IF ahead = {}
                   THEN IF call.swap_for_y THEN <<0 - BIN_ARRAY_BITMAP_SIZE - 1, FALSE>>
                        ELSE <<BIN_ARRAY_BITMAP_SIZE, FALSE>>
                   ELSE IF call.swap_for_y THEN <<SetMax(ahead), TRUE>>
                        ELSE <<SetMin(ahead), TRUE>>

\* An upward search that skips clear bits and leaves a set bit behind it.
C2_SkipsClearBits ==
    /\ call.op = "next_bin_array_index_with_liquidity_internal"
    /\ ~call.swap_for_y
    /\ call.result.val[2]
    /\ call.result.val[1] > call.start_array_index + 1
    /\ \E i \in SetIndices : i < call.start_array_index

\* The index of the bin array whose range of bin ids holds the active bin.
ActiveArrayIndex ==
    CHOOSE i \in bitmap_range[1]..bitmap_range[2] :
        /\ pool.active_id >= i * BINS_PER_ARRAY
        /\ pool.active_id < (i + 1) * BINS_PER_ARRAY

\* C3: without a bitmap extension get_bin_array_pubkeys_for_swap(take)
\* returns the first min(take, n) set indices from the active bin's array on
\* (inclusive) in the swap direction, strictly monotone, at most take.
C3_PubkeysAreNearestSetIndices ==
    call.op = "get_bin_array_pubkeys_for_swap" =>
        LET ahead == SetIndicesFrom(call.swap_for_y, ActiveArrayIndex)
            keys == call.result
            found == {keys[i] : i \in 1..Len(keys)}
        IN  /\ Len(keys) = Min(call.take_count, Cardinality(ahead))
            /\ found \subseteq {derive_bin_array_pda(i) : i \in ahead}
            /\ \A i \in 1..Len(keys) - 1 :
                   IF call.swap_for_y THEN keys[i + 1] < keys[i] ELSE keys[i + 1] > keys[i]
            /\ \A x \in ahead \ found : \A y \in found :
                   IF call.swap_for_y THEN x < y ELSE x > y

\* A downward call that takes two of three set indices, the active bin's own
\* array first.
C3_TakesFewerThanSet ==
    /\ call.op = "get_bin_array_pubkeys_for_swap"
    /\ call.swap_for_y
    /\ call.take_count = 2
    /\ Len(call.result) = 2
    /\ call.result[1] = ActiveArrayIndex
    /\ Cardinality(SetIndicesFrom(TRUE, ActiveArrayIndex)) = 3

\* The reserve of the token a swap pays in and of the token it pays out.
PaySide(b, swap_for_y) == IF swap_for_y THEN b.amount_x ELSE b.amount_y
ReceiveSide(b, swap_for_y) == IF swap_for_y THEN b.amount_y ELSE b.amount_x

\* C4: conservation.  After every successful Bin::swap the pay-side reserve
\* has grown by exactly amount_in_with_fees - fee, the receive-side reserve
\* has shrunk by exactly amount_out, and what went into the bin plus the
\* fee is amount_in_with_fees.
C4_SwapConserves ==
    (call.op = "swap" /\ call.result.ok) =>
        LET r == call.result.val
            into_bin == PaySide(bin, call.swap_for_y) - PaySide(call.before, call.swap_for_y)
        IN  /\ into_bin = r.amount_in_with_fees - r.fee
            /\ into_bin >= 0
            /\ ReceiveSide(call.before, call.swap_for_y) - ReceiveSide(bin, call.swap_for_y)
                   = r.amount_out
            /\ into_bin + r.fee = r.amount_in_with_fees

\* A partial fill that charges a fee and pays out.
C4_PartialFillWithFee ==
    /\ call.op = "swap"
    /\ call.result.ok
    /\ call.result.val.fee > 0
    /\ call.result.val.amount_out > 0
    /\ call.result.val.amount_out < ReceiveSide(call.before, call.swap_for_y)
    /\ call.result.val.amount_in_with_fees = call.amount_in

\* The largest amount_in the bin of the last call could take, fee included.
MaxInTotal ==
    get_max_amount_in(call.before, call.price, call.swap_for_y).val
        + compute_fee(pool, get_max_amount_in(call.before, call.price,
                                              call.swap_for_y).val).val

\* C5: non-negativity.  amount_out of a Bin::swap is at most the receive-side
\* reserve before the call, no reserve leaves the u64 range after any
\* sequence of calls, and a call with amount_in above the bin's maximum pays
\* out the whole receive-side reserve and leaves it 0.
C5_ReservesStayNonNegative ==
    /\ bin.amount_x >= 0 /\ bin.amount_x <= U64_MAX
    /\ bin.amount_y >= 0 /\ bin.amount_y <= U64_MAX
    /\ (call.op = "swap" /\ call.result.ok) =>
          /\ call.result.val.amount_out <= ReceiveSide(call.before, call.swap_for_y)
          /\ call.amount_in > MaxInTotal =>
                /\ call.result.val.amount_out = ReceiveSide(call.before, call.swap_for_y)
                /\ ReceiveSide(bin, call.swap_for_y) = 0

\* A call that exhausts a bin holding reserves of both tokens.
C5_BinExhausted ==
    /\ call.op = "swap"
    /\ call.result.ok
    /\ call.amount_in > MaxInTotal
    /\ ReceiveSide(call.before, call.swap_for_y) > 0
    /\ PaySide(call.before, call.swap_for_y) > 0
    /\ ReceiveSide(bin, call.swap_for_y) = 0

\* C10: idempotence of references.  A second update_references(now) right
\* after the first leaves the pool as the first call left it (the same
\* index_reference, volatility_reference, volatility_accumulator,
\* last_update_timestamp and active_id) and succeeds iff the first did.
C10_UpdateReferencesIdempotent ==
    call.op = "update_references_again" =>
        /\ lb_pair = call.after_first
        /\ call.ok = call.first_ok

\* A pair of calls inside the decay window that changed both references.
C10_DecayedTwice ==
    /\ call.op = "update_references_again"
    /\ call.ok
    /\ call.after_first.v_parameters.volatility_reference > 0
    /\ call.after_first.v_parameters.volatility_reference
           # call.before.v_parameters.volatility_reference
    /\ call.after_first.v_parameters.index_reference
           # call.before.v_parameters.index_reference

\* The point the activation gate of the pool reads from the clock.
CurrentPoint ==
    IF pool.activation_type = "Slot" THEN clock.slot ELSE clock.unix_timestamp

\* The pools the activation gate has to reject.
GateClosed ==
    \/ pool.status # "Enabled"
    \/ pool.pair_type = "Permission" /\ CurrentPoint < pool.activation_point

\* C6: activation gate.  A quote on a pool that is not Enabled, or that is a
\* Permission pool before its activation point, fails with PairDisabled
\* before update_references is called or a bin is processed; on every other
\* pool the activation check passes.
C6_ActivationGate ==
    q.pc # "Init" =>
        IF GateClosed
        THEN /\ q.pc = "Failed"
             /\ q.outcome = "PairDisabled"
             /\ q.refs = 0
             /\ q.visited = 0
             /\ lb_pair = pool
        ELSE q.outcome # "PairDisabled"

\* An enabled Permission pool rejected one point before its activation point.
C6_RejectedBeforeActivation ==
    /\ q.pc = "Failed"
    /\ q.outcome = "PairDisabled"
    /\ pool.status = "Enabled"
    /\ pool.pair_type = "Permission"
    /\ CurrentPoint + 1 = pool.activation_point

\* The sum of f over the set S.
RECURSIVE SumOver(_, _)
SumOver(S, f) ==
    IF S = {} THEN 0
    ELSE LET x == CHOOSE y \in S : TRUE IN f[x] + SumOver(S \ {x}, f)

\* The supplied map holds every bin array whose bit is set in the bitmap.
MapCoversBitmap == \A i \in SetIndices : derive_bin_array_pda(i) \in DOMAIN bin_arrays

\* The bins a quote can come to: the bins from active_id on in the swap
\* direction, in the bin arrays whose bit is set and that are in the map.
BinsAhead ==
    {b \in UNION {{<<derive_bin_array_pda(i), id>> : id \in BinIdsOf(i)} :
                     i \in {j \in SetIndices : derive_bin_array_pda(j) \in DOMAIN bin_arrays}} :
        IF q.swap_for_y THEN b[2] <= pool.active_id ELSE b[2] >= pool.active_id}

\* The total receive-side reserve of these bins.
ReserveAhead ==
    SumOver(BinsAhead,
            [b \in BinsAhead |-> ReceiveSide(bin_arrays[b[1]].bins[b[2]], q.swap_for_y)])

\* An exact-out request above everything the pool can pay out.
Exhausted == q.kind = "exact_out" /\ MapCoversBitmap /\ q.request > ReserveAhead

\* An exact-in quote with input left and no bin array ahead of its active bin.
InputRemains ==
    /\ q.kind = "exact_in"
    /\ q.amount > 0
    /\ Len(get_bin_array_pubkeys_for_swap(lb_pair, bitmap_extension, q.swap_for_y, 1)) = 0

\* C7 as stated: liquidity exhaustion.  A quote_exact_out whose request
\* exceeds the reserve it can reach, on a map that covers the bitmap, and a
\* quote_exact_in with input left and no further bin array, end with
\* PoolOutOfLiquidity and with no other outcome.
C7_ExhaustionEndsOutOfLiquidity ==
    (Terminated /\ (Exhausted \/ InputRemains)) => q.outcome = "PoolOutOfLiquidity"

\* C7, amended: such a quote_exact_out never returns a quote and ends, when
\* it ends, with PoolOutOfLiquidity, InsufficientLiquidity or Overflow; a
\* quote_exact_in that has ended with input left and no further bin array
\* has ended with PoolOutOfLiquidity.
C7_ExhaustionNeverQuotes ==
    /\ Exhausted =>
          q.outcome \in {"Running", "PoolOutOfLiquidity", "InsufficientLiquidity", "Overflow"}
    /\ (Terminated /\ InputRemains) => q.outcome = "PoolOutOfLiquidity"

\* An exact-out quote that drained two bins and then found no bin array.
C7_DrainedThenOutOfLiquidity ==
    /\ Exhausted
    /\ q.pc = "Failed"
    /\ q.outcome = "PoolOutOfLiquidity"
    /\ q.swapped >= 2

\* The second quote of a round trip: the exact-out quote for the amount the
\* exact-in quote returned.
RoundTrip == first.set /\ first.kind = "exact_in" /\ q.kind = "exact_out"

\* The bins traversed by the quotes of the round trip.
BinsCrossed == IF first.visited >= q.visited THEN first.visited ELSE q.visited

C9_RoundTripWithinBinsCrossed ==
    (RoundTrip /\ first.quote_amount > 0 /\ q.pc = "Done") =>
        Abs(q.quote_amount - first.request) <= BinsCrossed

\* C9, amended: the exact-out quote for O succeeds and its amount_in' is at
\* most A.
C9_RoundTripNeverCostsMore ==
    (RoundTrip /\ first.quote_amount > 0 /\ Terminated) =>
        /\ q.pc = "Done"
        /\ q.quote_amount <= first.request

\* A round trip that came back with less than it started from.
C9_RoundTripCostsLess ==
    /\ RoundTrip
    /\ q.pc = "Done"
    /\ first.quote_amount > 0
    /\ q.quote_amount < first.request

\* f is the least integer with f * denominator >= numerator.
LeastAbove(f, numerator, denominator) ==
    /\ f * denominator >= numerator
    /\ (f - 1) * denominator < numerator

\* C11: fee rounding direction.  For every total fee rate r in
\* 0..MAX_FEE_RATE and all amounts x <= y, compute_fee and
\* compute_fee_from_amount succeed and are non-decreasing; compute_fee(x) is
\* the least f with f * (FEE_PRECISION - r) >= x * r and
\* compute_fee_from_amount(x) the least f with f * FEE_PRECISION >= x * r.
C11_FeesAreExactCeilings ==
    /\ get_total_fee(pool) >= 0 /\ get_total_fee(pool) <= MAX_FEE_RATE
    /\ call.op \in {"compute_fee", "compute_fee_from_amount"} =>
          LET r == get_total_fee(pool)
              d == IF call.op = "compute_fee" THEN FEE_PRECISION - r ELSE FEE_PRECISION
          IN  /\ call.fx.ok /\ call.fy.ok
              /\ call.fx.val <= call.fy.val
              /\ LeastAbove(call.fx.val, call.x * r, d)
              /\ LeastAbove(call.fy.val, call.y * r, d)

\* A call of compute_fee whose exact fee is no integer, at a rate where the
\* fee on top and the fee inside differ, on amounts with different fees.
C11_FeeRoundedUp ==
    /\ call.op = "compute_fee"
    /\ call.fx.ok /\ call.fy.ok
    /\ call.fx.val < call.fy.val
    /\ (call.y * get_total_fee(pool)) % (FEE_PRECISION - get_total_fee(pool)) # 0
    /\ compute_fee_from_amount(pool, call.y).val < call.fy.val

\* The time since the last update of the pool, as update_references reads it.
Elapsed == clock.unix_timestamp - pool.v_parameters.last_update_timestamp

\* An exact-in quote that has processed its first bin after an idle interval
\* of at least decay_period.
FirstBinAfterIdle ==
    /\ q.kind = "exact_in"
    /\ q.visited >= 1
    /\ Elapsed >= pool.parameters.decay_period

\* C12 as stated: full reset after idle.  For every filter_period and
\* decay_period, a quote_exact_in with elapsed >= decay_period processes its
\* first bin with volatility_reference = 0 on its copy of the pool.
C12_ResetAfterIdle ==
    FirstBinAfterIdle => lb_pair.v_parameters.volatility_reference = 0

\* C12, amended: the same when elapsed is also at least filter_period.
C12_ResetAfterIdleAndFilter ==
    (FirstBinAfterIdle /\ Elapsed >= pool.parameters.filter_period) =>
        lb_pair.v_parameters.volatility_reference = 0

\* A first bin processed with the reference reset while the caller's pool
\* still stores a reference and an accumulator.
C12_StoredReferenceReset ==
    /\ FirstBinAfterIdle
    /\ Elapsed >= pool.parameters.filter_period
    /\ pool.v_parameters.volatility_reference > 0
    /\ pool.v_parameters.volatility_accumulator > 0
    /\ lb_pair.v_parameters.volatility_reference = 0

\* C13: no external mutation.  No step of a quote, whether the quote goes on
\* to return or to fail, changes the caller's pool snapshot or a bin of the
\* supplied bin-array map; the changes go to the local copy of the pool and
\* to the clone of the selected bin array.
C13_CallerStateUnchanged ==
    [][/\ pool' = pool
       /\ bin_arrays' = bin_arrays
       /\ bitmap_extension' = bitmap_extension]_vars

\* A quote whose copy of the pool and whose clone of the bin array both
\* differ from what the caller holds.
C13_CopiesDiffer ==
    /\ q.swapped >= 1
    /\ active_bin_array.loaded
    /\ lb_pair.active_id # pool.active_id
    /\ lb_pair.v_parameters # pool.v_parameters
    /\ active_bin_array.bins # bin_arrays[derive_bin_array_pda(active_bin_array.index)].bins

\* The active bin of the running quote, as the clone of its bin array holds it.
ActiveBin == active_bin_array.bins[lb_pair.active_id]

\* The gross input an exact-out quote owes for the active bin at `price`:
\* the bin's maximum when the remaining output covers the reserve, the input
\* for the remaining output otherwise.
GrossInputOwed(price) ==
    IF q.amount >= ReceiveSide(ActiveBin, q.swap_for_y)
    THEN get_max_amount_in(ActiveBin, price, q.swap_for_y)
    ELSE get_amount_in(q.amount, price, q.swap_for_y)

\* C14: exact-out accounting.  The totals of quote_exact_out start at 0; a
\* visited bin with a non-zero receive-side reserve adds get_max_amount_in
\* and its compute_fee and takes the reserve off the remaining output iff
\* the remaining output is >= the reserve, and otherwise adds
\* get_amount_in(remaining) and its compute_fee and leaves 0; a bin with no
\* reserve adds nothing; the returned fee is the sum of the fees and the
\* returned amount_in the sum of the gross inputs plus that fee.
C14_ExactOutAccounting ==
    [][q.kind = "exact_out" =>
        /\ q.pc \in {"Init", "UpdateRefs"} => (q.total_amount = 0 /\ q.total_fee = 0)
        /\ (q.pc = "ConsumeBin" /\ q'.swapped = q.swapped + 1) =>
              LET price == active_bin_array'.bins[lb_pair.active_id].price
                  reserve == ReceiveSide(ActiveBin, q.swap_for_y)
              IN  /\ reserve > 0
                  /\ GrossInputOwed(price).ok
                  /\ q'.total_amount = q.total_amount + GrossInputOwed(price).val
                  /\ q'.total_fee =
                         q.total_fee + compute_fee(lb_pair', GrossInputOwed(price).val).val
                  /\ q'.amount = IF q.amount >= reserve THEN q.amount - reserve ELSE 0
        /\ (q.pc = "ConsumeBin" /\ q'.pc = "Advance" /\ q'.swapped = q.swapped) =>
              /\ ReceiveSide(ActiveBin, q.swap_for_y) = 0
              /\ q'.total_amount = q.total_amount
              /\ q'.total_fee = q.total_fee
              /\ q'.amount = q.amount
        /\ q.pc \in {"SelectBinArray", "Advance"} =>
              (q'.total_amount = q.total_amount /\ q'.total_fee = q.total_fee)
        /\ (q.pc = "Finalize" /\ q'.pc = "Done") =>
              /\ q'.quote_fee = q.total_fee
              /\ q'.quote_amount = q.total_amount + q.total_fee
              /\ q'.quote_amount >= q'.quote_fee]_vars

\* A returned exact-out quote that consumed a bin fully, filled the rest
\* from the next bin and charged a fee.
C14_FullThenPartialBin ==
    /\ q.kind = "exact_out"
    /\ q.pc = "Done"
    /\ q.swapped = 2
    /\ q.request > Reserve /\ q.request < 2 * Reserve
    /\ q.quote_fee > 0
    /\ q.quote_amount > q.quote_fee

\* The time between the stored last update and the timestamp of the last
\* direct call of update_references.
CallElapsed == call.now - call.before.v_parameters.last_update_timestamp

\* C15 as stated: decay of the volatility reference.  For every
\* volatility_accumulator and reduction_factor, update_references with
\* filter_period <= elapsed < decay_period succeeds and stores
\* index_reference = active_id and volatility_reference =
\* floor(volatility_accumulator * reduction_factor / BASIS_POINT_MAX); with
\* elapsed < filter_period it changes nothing; in all cases
\* volatility_accumulator, last_update_timestamp and active_id stay.
C15_DecayOfReference ==
    call.op = "update_references" =>
        LET before == call.before
            v == before.v_parameters
            s == before.parameters
        IN  /\ lb_pair.v_parameters.volatility_accumulator = v.volatility_accumulator
            /\ lb_pair.v_parameters.last_update_timestamp = v.last_update_timestamp
            /\ lb_pair.active_id = before.active_id
            /\ (CallElapsed >= I64_MIN /\ CallElapsed < s.filter_period) =>
                  (call.ok /\ lb_pair = before)
            /\ (CallElapsed >= s.filter_period /\ CallElapsed < s.decay_period) =>
                  /\ call.ok
                  /\ lb_pair.v_parameters.index_reference = before.active_id
                  /\ lb_pair.v_parameters.volatility_reference =
                         (v.volatility_accumulator * s.reduction_factor) \div BASIS_POINT_MAX

\* A call inside the decay window whose product of accumulator and
\* reduction factor does not fit u32: it fails and leaves index_reference
\* stored.
C15_DecayProductOverflows ==
    /\ call.op = "update_references"
    /\ ~call.ok
    /\ CallElapsed >= call.before.parameters.filter_period
    /\ CallElapsed < call.before.parameters.decay_period
    /\ call.before.v_parameters.volatility_accumulator * call.before.parameters.reduction_factor
           > U32_MAX
    /\ (call.before.v_parameters.volatility_accumulator
           * call.before.parameters.reduction_factor) \div BASIS_POINT_MAX <= U32_MAX
    /\ lb_pair.v_parameters.index_reference # call.before.v_parameters.index_reference

\* One step of the active bin in the swap direction of the quote.
Step == IF q.swap_for_y THEN 0 - 1 ELSE 1

\* active_id has moved past the last bin swapped in, in the swap direction.
PastLastSwapped ==
    IF q.swap_for_y THEN lb_pair.active_id < q.last_swapped
    ELSE lb_pair.active_id > q.last_swapped

\* C16 as stated: quote_exact_in advances active_id after each bin, also
\* after a partial fill, so that after a successful quote active_id is one
\* step past the last bin that was swapped in.
C16_ActiveIdPastLastSwappedBin ==
    (q.kind = "exact_in" /\ q.pc = "Done" /\ q.swapped >= 1) =>
        lb_pair.active_id = q.last_swapped + Step

\* C16, amended: active_id is advanced after a bin only while input is
\* left.  While input is left after a swap, active_id is past the bin
\* swapped in; the partial fill uses the input up, and after a successful
\* quote active_id is the last bin that was swapped in.
C16_ActiveIdOnLastSwappedBin ==
    (q.kind = "exact_in" /\ q.swapped >= 1) =>
        /\ (q.pc \in {"ConsumeBin", "SelectBinArray"} /\ q.amount > 0) => PastLastSwapped
        /\ q.amount = 0 => lb_pair.active_id = q.last_swapped
        /\ q.pc = "Done" => (q.amount = 0 /\ lb_pair.active_id = q.last_swapped)

\* A successful exact-in quote that consumed a bin fully, moved on, and
\* ended with a partial fill in the bin it stands on.
C16_EndsOnPartialFill ==
    /\ q.kind = "exact_in"
    /\ q.pc = "Done"
    /\ q.swapped >= 2
    /\ lb_pair.active_id = q.last_swapped
    /\ lb_pair.active_id # pool.active_id

\* The copy of the pool with the volatility accumulator of bin b:
\* min(volatility_reference + |index_reference - b| * BASIS_POINT_MAX,
\* max_volatility_accumulator).
AtAccumulatorOf(b) ==
    [lb_pair EXCEPT !.v_parameters.volatility_accumulator =
        Min(lb_pair.v_parameters.volatility_reference
                + Abs(lb_pair.v_parameters.index_reference - b) * BASIS_POINT_MAX,
            lb_pair.parameters.max_volatility_accumulator)]

\* The step of a quote that visits the active bin.
VisitsBin == q.pc = "ConsumeBin" /\ q'.visited = q.visited + 1

\* The fee of the active bin at `price` under the fee rate of the pool lb.
FeeOwed(price, lb) ==
    IF q.kind = "exact_in"
    THEN swap_charge([ActiveBin EXCEPT !.price = price], q.amount, price,
                     q.swap_for_y, lb).val.fee
    ELSE compute_fee(lb, GrossInputOwed(price).val).val

\* C17: ordering of the volatility updates in a quote.  update_references
\* runs once, after the activation check and before any bin is processed;
\* update_volatility_accumulator runs once for each bin visited, bins
\* without receive-side reserve included, and no other step of the quote
\* changes the accumulator; the fee taken in bin b is the fee at the rate of
\* min(volatility_reference + |index_reference - b| * BASIS_POINT_MAX,
\* max_volatility_accumulator).
C17_VolatilityUpdatesInOrder ==
    [][q.pc \notin {"Idle", "Done"} =>
        /\ q'.refs = IF q.pc = "UpdateRefs" THEN q.refs + 1 ELSE q.refs
        /\ q.pc \in {"Init", "UpdateRefs"} => (q.refs = 0 /\ q.visited = 0)
        /\ q.pc = "UpdateRefs" => q.outcome = "Running"
        /\ q'.visited > 0 => q'.refs = 1
        /\ q.pc # "UpdateRefs" =>
              /\ lb_pair'.v_parameters.volatility_reference
                     = lb_pair.v_parameters.volatility_reference
              /\ lb_pair'.v_parameters.index_reference
                     = lb_pair.v_parameters.index_reference
        /\ ~VisitsBin => lb_pair'.v_parameters.volatility_accumulator
                              = lb_pair.v_parameters.volatility_accumulator
        /\ VisitsBin => lb_pair' = AtAccumulatorOf(lb_pair.active_id)
        /\ (VisitsBin /\ q'.swapped = q.swapped + 1) =>
              q'.total_fee = q.total_fee
                  + FeeOwed(active_bin_array'.bins[lb_pair.active_id].price,
                            AtAccumulatorOf(lb_pair.active_id))]_vars

\* A quote that visited a bin without reserve and a bin it swapped in, took
\* a fee, and left the accumulator of its copy different from the stored one.
C17_FeeAfterEmptyBin ==
    /\ q.visited > q.swapped
    /\ q.swapped >= 1
    /\ q.total_fee > 0
    /\ q.refs = 1
    /\ lb_pair.v_parameters.volatility_accumulator # pool.v_parameters.volatility_accumulator
    /\ lb_pair.active_id # lb_pair.v_parameters.index_reference

\* C18: advance_active_bin moves active_id by exactly one step in the swap
\* direction when the new id is in MIN_BIN_ID..MAX_BIN_ID, and otherwise
\* fails with InsufficientLiquidity and leaves active_id; no other step of a
\* quote moves active_id, so it stays in MIN_BIN_ID..MAX_BIN_ID and only
\* ever moves in the swap direction.
C18_ActiveIdStaysInRange ==
    [][q.pc \notin {"Idle", "Done"} =>
        /\ lb_pair.active_id >= MIN_BIN_ID /\ lb_pair.active_id <= MAX_BIN_ID
        /\ lb_pair'.active_id >= MIN_BIN_ID /\ lb_pair'.active_id <= MAX_BIN_ID
        /\ IF q.swap_for_y THEN lb_pair'.active_id <= pool.active_id
           ELSE lb_pair'.active_id >= pool.active_id
        /\ IF q.pc = "Advance" /\ q.amount > 0
           THEN IF lb_pair.active_id + Step >= MIN_BIN_ID
                   /\ lb_pair.active_id + Step <= MAX_BIN_ID
                THEN /\ lb_pair'.active_id = lb_pair.active_id + Step
                     /\ q'.pc = "ConsumeBin"
                ELSE /\ lb_pair'.active_id = lb_pair.active_id
                     /\ q'.pc = "Failed"
                     /\ q'.outcome = "InsufficientLiquidity"
           ELSE /\ lb_pair'.active_id = lb_pair.active_id
                /\ q'.outcome # "InsufficientLiquidity"]_vars

\* A quote that moved to the last bin id and failed there with
\* InsufficientLiquidity, the active bin still in range.
C18_StoppedAtLastBinId ==
    /\ q.pc = "Failed"
    /\ q.outcome = "InsufficientLiquidity"
    /\ lb_pair.active_id = (IF q.swap_for_y THEN MIN_BIN_ID ELSE MAX_BIN_ID)
    /\ lb_pair.active_id # pool.active_id

\* The index the internal navigator returns with has_liquidity = false.
Sentinel(swap_for_y) == IF swap_for_y THEN bitmap_range[1] - 1 ELSE bitmap_range[2] + 1

\* C19: in every iteration of get_bin_array_pubkeys_for_swap the internal
\* navigator is invoked only with a start index of the internal range (bit
\* offset 0..1023), and it never returns an error; once it reports no
\* liquidity the cursor is the sentinel one past the range, and the next
\* iteration consults the extension, or leaves the loop when there is none.
\* The loop returns what get_bin_array_pubkeys_for_swap returns.
C19_InternalNavigatorInRange ==
    [][call'.op = "pubkeys_loop" =>
        /\ call'.navigator = "internal" =>
              /\ call'.from >= bitmap_range[1] /\ call'.from <= bitmap_range[2]
              /\ get_bin_array_offset(call'.from) >= 0
              /\ get_bin_array_offset(call'.from) <= U1024_BITS - 1
              /\ call'.result.ok
              /\ ~call'.result.val[2] =>
                    (~call'.done /\ call'.start_bin_array_idx = Sentinel(call'.swap_for_y))
        /\ (call.op = "pubkeys_loop" /\ call.navigator = "internal"
               /\ ~call.result.val[2]) =>
              IF bitmap_extension.present
              THEN call'.navigator = "extension" /\ call'.from = Sentinel(call.swap_for_y)
              ELSE call'.navigator = "none" /\ call'.done
        /\ call'.done =>
              call'.bin_array_idx =
                  get_bin_array_pubkeys_for_swap(pool, bitmap_extension,
                                                 call'.swap_for_y, call'.take_count)]_vars

\* A search that left the internal bitmap without liquidity and went on in
\* the extension from the sentinel.
C19_HandedToExtension ==
    /\ call.op = "pubkeys_loop"
    /\ call.navigator = "extension"
    /\ call.from = Sentinel(call.swap_for_y)
    /\ call.result.ok
    /\ call.result.val[2]
    /\ Len(call.bin_array_idx) >= 2

\* The second quote pays the amount_in the first, exact-out quote returned.
PaysQuotedAmount ==
    /\ first.set
    /\ first.kind = "exact_out"
    /\ q.kind = "exact_in"
    /\ q.request = first.quote_amount

\* C20 as stated: exact-out guarantee.  When quote_exact_out(O) returns
\* amount_in = A, quote_exact_in(A) on the same snapshot, direction and clock
\* succeeds and returns amount_out >= O.
C20_QuotedAmountBuysOutput ==
    (PaysQuotedAmount /\ Terminated) =>
        /\ q.pc = "Done"
        /\ q.quote_amount >= first.request

\* The quoted amount_in does not buy the output: the exact-in quote for it
\* fails in the bin the exact-out quote ended in, whose full price in input
\* does not fit u64.
C20_QuotedAmountOverflows ==
    /\ PaysQuotedAmount
    /\ q.pc = "Failed"
    /\ q.outcome = "Overflow"
    /\ q.swapped = 0
    /\ first.swapped = 1
    /\ lb_pair.active_id = first.active_id

====
